---- MODULE Spec2Model ----
(***************************************************************************)
(* Model of inventario_app.py: the Inventario repository (a dict of        *)
(* Producto mirrored in the SQLite table `productos`) driven by main().    *)
(*                                                                         *)
(* Encoding of values:                                                     *)
(*   - a str is a sequence of one-character strings;                       *)
(*   - precio (a float) is counted in hundredths: 2.50 is 250;             *)
(*   - the dict `productos` is a sequence of entries [k, v] in insertion   *)
(*     order (a Python dict iterates in insertion order);                  *)
(*   - the table is a set of rows; `tabla` is what is committed to the     *)
(*     file, `vista` what the open connection sees (its own uncommitted    *)
(*     statements included).                                               *)
(* Every bytecode boundary of main() is a place where KeyboardInterrupt    *)
(* can be raised, so each repository method is modelled statement by       *)
(* statement, with `pc` the position of the process.                       *)
(***************************************************************************)
EXTENDS Integers, Sequences, FiniteSets, TLC

VARIABLES pc, tabla, vista, productos, conn, cerradas, op, ret, antes,
          semilla, exc, excEn, resultado

vars == <<pc, tabla, vista, productos, conn, cerradas, op, ret, antes,
          semilla, exc, excEn, resultado>>

----------------------------------------------------------------------------
(* Bounds of the inputs typed at the prompts *)

MaxCantidad == 1
MaxPrecio == 1

Ids == {100, 101}
Cantidades == -1 .. MaxCantidad
Precios == -1 .. MaxPrecio
EntradasNombre == { <<" ", "Q", "u", " ">> }
EntradasBusqueda == { <<>>, <<" ">>, <<" ", "q", "U", " ">>, <<"z">> }

----------------------------------------------------------------------------
(* str methods *)

Espacios == {" "}

RECURSIVE LStrip(_)
LStrip(s) == IF s # <<>> /\ Head(s) \in Espacios THEN LStrip(Tail(s)) ELSE s

RECURSIVE RStrip(_)
RStrip(s) ==
    IF s # <<>> /\ s[Len(s)] \in Espacios
    THEN RStrip(SubSeq(s, 1, Len(s) - 1))
    ELSE s

Strip(s) == RStrip(LStrip(s))

Mayusculas == <<"A","B","C","D","E","F","G","H","I","J","K","L","M",
                "N","O","P","Q","R","S","T","U","V","W","X","Y","Z">>
Minusculas == <<"a","b","c","d","e","f","g","h","i","j","k","l","m",
                "n","o","p","q","r","s","t","u","v","w","x","y","z">>

LowerChar(c) ==
    IF \E i \in 1..Len(Mayusculas) : Mayusculas[i] = c
    THEN Minusculas[CHOOSE i \in 1..Len(Mayusculas) : Mayusculas[i] = c]
    ELSE c

Lower(s) == [i \in 1..Len(s) |-> LowerChar(s[i])]

\* a test that takes the empty string to be in no string
Contiene_noVacia(sub, s) ==
    /\ sub # <<>>
    /\ \E i \in 0..(Len(s) - Len(sub)) : SubSeq(s, i + 1, i + Len(sub)) = sub

\* Python's `sub in s` on str
Contiene(sub, s) ==
    \E i \in 0..(Len(s) - Len(sub)) : SubSeq(s, i + 1, i + Len(sub)) = sub

----------------------------------------------------------------------------
(* Producto and the dict {id: Producto} *)

Producto(id, nombre, cantidad, precio) ==
    [id |-> id, nombre |-> nombre, cantidad |-> cantidad, precio |-> precio]

\* set_precio assigning to self.cantidad
set_precio_enCantidad(p, nuevo_precio) == [p EXCEPT !.cantidad = nuevo_precio]

set_cantidad(p, nueva_cantidad) == [p EXCEPT !.cantidad = nueva_cantidad]
set_precio(p, nuevo_precio) == [p EXCEPT !.precio = nuevo_precio]

Claves(d) == {d[i].k : i \in 1..Len(d)}
Valores(d) == [i \in 1..Len(d) |-> d[i].v]
Pos(d, k) == CHOOSE i \in 1..Len(d) : d[i].k = k
Obtener(d, k) == d[Pos(d, k)].v

\* d[k] = v : an existing key keeps its place, a new key goes last
Asignar(d, k, v) ==
    IF k \in Claves(d)
    THEN [d EXCEPT ![Pos(d, k)] = [k |-> k, v |-> v]]
    ELSE Append(d, [k |-> k, v |-> v])

\* d.popitem() in place of d.pop(k, None)
Pop_ultimo(d, k) == IF d = <<>> THEN d ELSE SubSeq(d, 1, Len(d) - 1)

\* d.pop(k, None)
Pop(d, k) ==
    IF k \in Claves(d)
    THEN LET n == Pos(d, k) IN SubSeq(d, 1, n - 1) \o SubSeq(d, n + 1, Len(d))
    ELSE d

_existe_id(d, id_) == id_ \in Claves(d)

----------------------------------------------------------------------------
(* The table productos and its statements *)

\* the table created without its CHECK constraints
CheckOk_sinCheck(fila) == TRUE

\* CHECK (cantidad >= 0), CHECK (precio >= 0) and the PRIMARY KEY
CheckOk(fila) == fila.cantidad >= 0 /\ fila.precio >= 0
ClaveLibre(t, id) == \A f \in t : f.id # id

InsertOk(t, fila) == CheckOk(fila) /\ ClaveLibre(t, fila.id)
Insert(t, fila) == t \cup {fila}

Delete(t, id_) == {f \in t : f.id # id_}

\* UPDATE productos SET cantidad = ? without its WHERE clause
UpdateCantidad_sinWhere(t, id_, c) == {[f EXCEPT !.cantidad = c] : f \in t}

UpdateCantidad(t, id_, c) ==
    {IF f.id = id_ THEN [f EXCEPT !.cantidad = c] ELSE f : f \in t}
UpdateCantidadOk(t, id_, c) == \A f \in UpdateCantidad(t, id_, c) : CheckOk(f)

UpdatePrecio(t, id_, v) ==
    {IF f.id = id_ THEN [f EXCEPT !.precio = v] ELSE f : f \in t}
UpdatePrecioOk(t, id_, v) == \A f \in UpdatePrecio(t, id_, v) : CheckOk(f)

\* ORDER BY id DESC
RECURSIVE SelectOrderById_desc(_)
SelectOrderById_desc(t) ==
    IF t = {} THEN <<>>
    ELSE LET m == CHOOSE f \in t : \A g \in t : f.id >= g.id
         IN <<m>> \o SelectOrderById_desc({g \in t : g.id # m.id})

\* SELECT id, nombre, cantidad, precio FROM productos ORDER BY id
RECURSIVE SelectOrderById(_)
SelectOrderById(t) ==
    IF t = {} THEN <<>>
    ELSE LET m == CHOOSE f \in t : \A g \in t : f.id <= g.id
         IN <<m>> \o SelectOrderById({g \in t : g.id # m.id})

\* the loader reading cantidad and precio from each other's column
RECURSIVE Cargar_columnas(_, _)
Cargar_columnas(d, filas) ==
    IF filas = <<>> THEN d
    ELSE LET row == Head(filas)
             p == Producto(row.id, row.nombre, row.precio, row.cantidad)
         IN Cargar_columnas(Asignar(d, p.id, p), Tail(filas))

\* the loader keying the dict by the number of the row
RECURSIVE Cargar_porIndice(_, _)
Cargar_porIndice(d, filas) ==
    IF filas = <<>> THEN d
    ELSE LET row == Head(filas)
             p == Producto(row.id, row.nombre, row.cantidad, row.precio)
         IN Cargar_porIndice(Asignar(d, Len(d), p), Tail(filas))

RECURSIVE Cargar(_, _)
Cargar(d, filas) ==
    IF filas = <<>> THEN d
    ELSE LET row == Head(filas)
             p == Producto(row.id, row.nombre, row.cantidad, row.precio)
         IN Cargar(Asignar(d, p.id, p), Tail(filas))

_cargar_desde_bd(t) == Cargar(<<>>, SelectOrderById(t))

\* the search without nombre.strip()
buscar_por_nombre_sinStrip(d, nombre) ==
    LET nombre_norm == Lower(nombre)
    IN SelectSeq(Valores(d), LAMBDA p : Contiene(nombre_norm, Lower(p.nombre)))

buscar_por_nombre(d, nombre) ==
    LET nombre_norm == Lower(Strip(nombre))
    IN SelectSeq(Valores(d), LAMBDA p : Contiene(nombre_norm, Lower(p.nombre)))

listar_todos(d) == Valores(d)

----------------------------------------------------------------------------
(* cargar_ejemplo_neos: the example products *)

NumEjemplos == 8

ejemplos == <<
    Producto(101, <<"H","a","r","i","n","a"," ","1","k","g">>, 20, 250),
    Producto(102, <<"Q","u","e","s","o"," ","M","o","z","z","a","r","e","l","l","a"," ","1","k","g">>, 15, 600),
    Producto(103, <<"S","a","l","s","a"," ","d","e"," ","T","o","m","a","t","e"," ","5","0","0","g">>, 30, 180),
    Producto(104, <<"O","r","é","g","a","n","o"," ","5","0","g">>, 40, 50),
    Producto(105, <<"C","a","j","a"," ","p","a","r","a"," ","P","i","z","z","a"," ","(","m","e","d","i","a","n","a",")">>, 200, 30),
    Producto(106, <<"A","c","e","i","t","e"," ","1","L">>, 10, 320),
    Producto(107, <<"B","e","b","i","d","a"," ","1",".","5","L">>, 50, 150),
    Producto(108, <<"P","e","p","p","e","r","o","n","i"," ","5","0","0","g">>, 12, 400) >>

----------------------------------------------------------------------------
(* State *)

SinOp == [nombre |-> "ninguna"]
SinAntes == [productos |-> <<>>, tabla |-> {}]

Init ==
    /\ pc = "inicio"
    /\ tabla = {}
    /\ vista = {}
    /\ productos = <<>>
    /\ conn = "ninguna"
    /\ cerradas = 0
    /\ op = SinOp
    /\ ret = "nada"
    /\ antes = SinAntes
    /\ semilla = 0
    /\ exc = "ninguna"
    /\ excEn = "ninguno"
    /\ resultado = <<>>


Foto == [productos |-> productos, tabla |-> tabla]

----------------------------------------------------------------------------
(* Inventario.__init__ (main, line 167): connect, create the table if it   *)
(* is missing, load the dict from the committed table.                     *)

Inventario_init ==
    /\ pc \in {"inicio", "terminado"}
    /\ conn' = "abierta"
    /\ vista' = tabla
    /\ productos' = _cargar_desde_bd(tabla)
    /\ cerradas' = 0
    /\ exc' = "ninguna"
    /\ excEn' = "ninguno"
    /\ semilla' = 0
    /\ pc' = "sembrar"
    /\ UNCHANGED <<tabla, op, ret, antes, resultado>>

----------------------------------------------------------------------------
(* cargar_ejemplo_neos (main, line 168, outside the try block) *)

\* the examples loaded without looking at listar_todos()
cargar_ejemplo_neos_sinGuarda ==
    /\ pc = "sembrar"
    /\ pc' = "sembrar_bucle"
    /\ semilla' = 1
    /\ UNCHANGED <<tabla, vista, productos, conn, cerradas, op, ret, antes,
                   exc, excEn, resultado>>

cargar_ejemplo_neos ==
    /\ pc = "sembrar"
    /\ IF listar_todos(productos) # <<>>
       THEN pc' = "menu" /\ semilla' = 0
       ELSE pc' = "sembrar_bucle" /\ semilla' = 1
    /\ UNCHANGED <<tabla, vista, productos, conn, cerradas, op, ret, antes,
                   exc, excEn, resultado>>

\* for p in ejemplos: inventario.agregar_producto(p)
cargar_ejemplo_bucle ==
    /\ pc = "sembrar_bucle"
    /\ IF semilla <= NumEjemplos
       THEN /\ op' = [nombre |-> "agregar_producto", producto |-> ejemplos[semilla]]
            /\ antes' = Foto
            /\ pc' = "agregar_existe"
            /\ UNCHANGED semilla
       ELSE /\ semilla' = 0
            /\ pc' = "menu"
            /\ UNCHANGED <<op, antes>>
    /\ UNCHANGED <<tabla, vista, productos, conn, cerradas, ret, exc, excEn,
                   resultado>>

\* the call returns into the loop; its result is dropped
cargar_ejemplo_sigue ==
    /\ pc = "fin"
    /\ semilla > 0
    /\ semilla' = semilla + 1
    /\ op' = SinOp
    /\ ret' = "nada"
    /\ antes' = SinAntes
    /\ pc' = "sembrar_bucle"
    /\ UNCHANGED <<tabla, vista, productos, conn, cerradas, exc, excEn,
                   resultado>>

----------------------------------------------------------------------------
(* The menu of main(): the option and its prompts *)

Llamar(o, donde) ==
    /\ pc = "menu"
    /\ op' = o
    /\ antes' = Foto
    /\ pc' = donde
    /\ UNCHANGED <<tabla, vista, productos, conn, cerradas, ret, semilla,
                   exc, excEn, resultado>>

Opcion1 ==
    \E id_ \in Ids, entrada \in EntradasNombre, cantidad \in Cantidades,
       precio \in Precios :
        Llamar([nombre |-> "agregar_producto",
                producto |-> Producto(id_, Strip(entrada), cantidad, precio)],
               "agregar_existe")

Opcion2 ==
    \E id_ \in Ids :
        Llamar([nombre |-> "eliminar_producto", id_ |-> id_], "eliminar_existe")

Opcion3 ==
    \E id_ \in Ids, nueva_cantidad \in Cantidades :
        Llamar([nombre |-> "actualizar_cantidad", id_ |-> id_,
                valor |-> nueva_cantidad], "cantidad_existe")

Opcion4 ==
    \E id_ \in Ids, nuevo_precio \in Precios :
        Llamar([nombre |-> "actualizar_precio", id_ |-> id_,
                valor |-> nuevo_precio], "precio_existe")

Opcion5 ==
    \E entrada \in EntradasBusqueda :
        /\ pc = "menu"
        /\ op' = [nombre |-> "buscar_por_nombre", entrada |-> entrada]
        /\ antes' = Foto
        /\ resultado' = buscar_por_nombre(productos, entrada)
        /\ pc' = "fin"
        /\ UNCHANGED <<tabla, vista, productos, conn, cerradas, ret, semilla,
                       exc, excEn>>

Opcion6 ==
    /\ pc = "menu"
    /\ op' = [nombre |-> "listar_todos"]
    /\ antes' = Foto
    /\ resultado' = listar_todos(productos)
    /\ pc' = "fin"
    /\ UNCHANGED <<tabla, vista, productos, conn, cerradas, ret, semilla,
                   exc, excEn>>

\* "0" closing the connection itself before the break
Opcion0_cierra ==
    /\ pc = "menu"
    /\ conn' = "cerrada"
    /\ cerradas' = cerradas + 1
    /\ pc' = "finally"
    /\ UNCHANGED <<tabla, vista, productos, op, ret, antes, semilla, exc,
                   excEn, resultado>>

\* "0": break, and the finally clause runs
Opcion0 ==
    /\ pc = "menu"
    /\ pc' = "finally"
    /\ UNCHANGED <<tabla, vista, productos, conn, cerradas, op, ret, antes,
                   semilla, exc, excEn, resultado>>

OpcionInvalida ==
    /\ pc = "menu"
    /\ op' = [nombre |-> "invalida"]
    /\ pc' = "fin"
    /\ UNCHANGED <<tabla, vista, productos, conn, cerradas, ret, antes,
                   semilla, exc, excEn, resultado>>

\* a failed call answered with a break
main_imprime_sale ==
    /\ pc = "fin"
    /\ semilla = 0
    /\ op' = SinOp
    /\ ret' = "nada"
    /\ antes' = SinAntes
    /\ resultado' = <<>>
    /\ pc' = IF ret = "False" THEN "finally" ELSE "menu"
    /\ UNCHANGED <<tabla, vista, productos, conn, cerradas, semilla, exc,
                   excEn>>

\* the message printed for the result; back to the top of the loop
main_imprime ==
    /\ pc = "fin"
    /\ semilla = 0
    /\ op' = SinOp
    /\ ret' = "nada"
    /\ antes' = SinAntes
    /\ resultado' = <<>>
    /\ pc' = "menu"
    /\ UNCHANGED <<tabla, vista, productos, conn, cerradas, semilla, exc,
                   excEn>>


----------------------------------------------------------------------------
(* Exceptions in main(): an exception raised in the try block runs the     *)
(* finally clause; one raised before the try block ends the process.       *)

Lanzar(e) ==
    /\ exc' = e
    /\ excEn' = pc
    /\ pc' = IF semilla = 0 THEN "finally" ELSE "terminado"

\* conn.commit()
Commit(siguiente) ==
    /\ tabla' = vista
    /\ pc' = siguiente
    /\ UNCHANGED <<vista, productos, conn, cerradas, op, ret, antes, semilla,
                   exc, excEn, resultado>>

\* return valor
Return(valor) ==
    /\ ret' = valor
    /\ pc' = "fin"

----------------------------------------------------------------------------
(* Inventario.agregar_producto *)

\* True returned for an identifier that is already there
agregar_producto_existe_devuelveTrue ==
    /\ pc = "agregar_existe"
    /\ IF _existe_id(productos, op.producto.id)
       THEN Return("True")
       ELSE pc' = "agregar_insert" /\ UNCHANGED ret
    /\ UNCHANGED <<tabla, vista, productos, conn, cerradas, op, antes,
                   semilla, exc, excEn, resultado>>

\* the dict assigned before the INSERT is tried
agregar_producto_existe_mapaPrimero ==
    /\ pc = "agregar_existe"
    /\ IF _existe_id(productos, op.producto.id)
       THEN Return("False") /\ UNCHANGED productos
       ELSE /\ pc' = "agregar_insert"
            /\ productos' = Asignar(productos, op.producto.id, op.producto)
            /\ UNCHANGED ret
    /\ UNCHANGED <<tabla, vista, conn, cerradas, op, antes, semilla, exc,
                   excEn, resultado>>

agregar_producto_existe ==
    /\ pc = "agregar_existe"
    /\ IF _existe_id(productos, op.producto.id)
       THEN Return("False")
       ELSE pc' = "agregar_insert" /\ UNCHANGED ret
    /\ UNCHANGED <<tabla, vista, productos, conn, cerradas, op, antes,
                   semilla, exc, excEn, resultado>>

\* INSERT inside try; sqlite3.IntegrityError is caught and gives False
agregar_producto_insert ==
    /\ pc = "agregar_insert"
    /\ IF InsertOk(vista, op.producto)
       THEN /\ vista' = Insert(vista, op.producto)
            /\ pc' = "agregar_commit"
            /\ UNCHANGED ret
       ELSE /\ Return("False")
            /\ UNCHANGED vista
    /\ UNCHANGED <<tabla, productos, conn, cerradas, op, antes, semilla,
                   exc, excEn, resultado>>

agregar_producto_commit ==
    /\ pc = "agregar_commit"
    /\ Commit("agregar_asignar")

\* True returned with the dict left as it was
agregar_producto_sin_asignar ==
    /\ pc = "agregar_asignar"
    /\ Return("True")
    /\ UNCHANGED <<tabla, vista, productos, conn, cerradas, op, antes,
                   semilla, exc, excEn, resultado>>

agregar_producto_asignar ==
    /\ pc = "agregar_asignar"
    /\ productos' = Asignar(productos, op.producto.id, op.producto)
    /\ Return("True")
    /\ UNCHANGED <<tabla, vista, conn, cerradas, op, antes, semilla, exc,
                   excEn, resultado>>

----------------------------------------------------------------------------
(* Inventario.eliminar_producto *)

eliminar_producto_existe ==
    /\ pc = "eliminar_existe"
    /\ IF ~ _existe_id(productos, op.id_)
       THEN Return("False")
       ELSE pc' = "eliminar_delete" /\ UNCHANGED ret
    /\ UNCHANGED <<tabla, vista, productos, conn, cerradas, op, antes,
                   semilla, exc, excEn, resultado>>

\* the entry taken out of the dict before the DELETE is committed
eliminar_producto_delete_popPrimero ==
    /\ pc = "eliminar_delete"
    /\ productos' = Pop(productos, op.id_)
    /\ vista' = Delete(vista, op.id_)
    /\ pc' = "eliminar_commit"
    /\ UNCHANGED <<tabla, conn, cerradas, op, ret, antes, semilla, exc,
                   excEn, resultado>>

eliminar_producto_delete ==
    /\ pc = "eliminar_delete"
    /\ vista' = Delete(vista, op.id_)
    /\ pc' = "eliminar_commit"
    /\ UNCHANGED <<tabla, productos, conn, cerradas, op, ret, antes, semilla,
                   exc, excEn, resultado>>

eliminar_producto_commit ==
    /\ pc = "eliminar_commit"
    /\ Commit("eliminar_pop")

eliminar_producto_pop ==
    /\ pc = "eliminar_pop"
    /\ productos' = Pop(productos, op.id_)
    /\ Return("True")
    /\ UNCHANGED <<tabla, vista, conn, cerradas, op, antes, semilla, exc,
                   excEn, resultado>>

----------------------------------------------------------------------------
(* Inventario.actualizar_cantidad: the UPDATE is not inside a try, so the  *)
(* IntegrityError of a failed CHECK leaves the method as an exception.     *)

actualizar_cantidad_existe ==
    /\ pc = "cantidad_existe"
    /\ IF ~ _existe_id(productos, op.id_)
       THEN Return("False")
       ELSE pc' = "cantidad_update" /\ UNCHANGED ret
    /\ UNCHANGED <<tabla, vista, productos, conn, cerradas, op, antes,
                   semilla, exc, excEn, resultado>>

actualizar_cantidad_update ==
    /\ pc = "cantidad_update"
    /\ IF UpdateCantidadOk(vista, op.id_, op.valor)
       THEN /\ vista' = UpdateCantidad(vista, op.id_, op.valor)
            /\ pc' = "cantidad_commit"
            /\ UNCHANGED <<exc, excEn>>
       ELSE /\ Lanzar("IntegrityError")
            /\ UNCHANGED vista
    /\ UNCHANGED <<tabla, productos, conn, cerradas, op, ret, antes, semilla,
                   resultado>>

actualizar_cantidad_commit ==
    /\ pc = "cantidad_commit"
    /\ Commit("cantidad_set")

actualizar_cantidad_set ==
    /\ pc = "cantidad_set"
    /\ productos' = Asignar(productos, op.id_,
                            set_cantidad(Obtener(productos, op.id_), op.valor))
    /\ Return("True")
    /\ UNCHANGED <<tabla, vista, conn, cerradas, op, antes, semilla, exc,
                   excEn, resultado>>

----------------------------------------------------------------------------
(* Inventario.actualizar_precio *)

actualizar_precio_existe ==
    /\ pc = "precio_existe"
    /\ IF ~ _existe_id(productos, op.id_)
       THEN Return("False")
       ELSE pc' = "precio_update" /\ UNCHANGED ret
    /\ UNCHANGED <<tabla, vista, productos, conn, cerradas, op, antes,
                   semilla, exc, excEn, resultado>>

actualizar_precio_update ==
    /\ pc = "precio_update"
    /\ IF UpdatePrecioOk(vista, op.id_, op.valor)
       THEN /\ vista' = UpdatePrecio(vista, op.id_, op.valor)
            /\ pc' = "precio_commit"
            /\ UNCHANGED <<exc, excEn>>
       ELSE /\ Lanzar("IntegrityError")
            /\ UNCHANGED vista
    /\ UNCHANGED <<tabla, productos, conn, cerradas, op, ret, antes, semilla,
                   resultado>>

actualizar_precio_commit ==
    /\ pc = "precio_commit"
    /\ Commit("precio_set")

actualizar_precio_set ==
    /\ pc = "precio_set"
    /\ productos' = Asignar(productos, op.id_,
                            set_precio(Obtener(productos, op.id_), op.valor))
    /\ Return("True")
    /\ UNCHANGED <<tabla, vista, conn, cerradas, op, antes, semilla, exc,
                   excEn, resultado>>

----------------------------------------------------------------------------
(* KeyboardInterrupt (SIGINT), raised between any two statements.          *)
(* Lines 169-230 are inside the try block; lines 167-168 (the constructor  *)
(* and the example data) and the finally clause itself are not.            *)

EnCurso == {"sembrar", "sembrar_bucle", "menu", "fin", "finally",
            "agregar_existe", "agregar_insert", "agregar_commit", "agregar_asignar",
            "eliminar_existe", "eliminar_delete", "eliminar_commit", "eliminar_pop",
            "cantidad_existe", "cantidad_update", "cantidad_commit", "cantidad_set",
            "precio_existe", "precio_update", "precio_commit", "precio_set"}

DentroDelTry == pc \notin {"sembrar", "sembrar_bucle", "finally"} /\ semilla = 0

KeyboardInterrupt ==
    /\ pc \in EnCurso
    /\ exc' = "KeyboardInterrupt"
    \* excEn keeps the place where main() was first left by an exception
    /\ excEn' = IF exc = "ninguna" THEN pc ELSE excEn
    /\ IF DentroDelTry
       THEN /\ pc' = "finally"
            /\ UNCHANGED <<vista, conn>>
       ELSE \* the process ends with the connection never closed
            /\ pc' = "terminado"
            /\ vista' = tabla
            /\ conn' = "abandonada"
    /\ op' = SinOp
    /\ ret' = "nada"
    /\ antes' = SinAntes
    /\ resultado' = <<>>
    /\ semilla' = 0
    /\ UNCHANGED <<tabla, productos, cerradas>>

\* finally: inventario.cerrar(); what was not committed is rolled back
cerrar ==
    /\ pc = "finally"
    /\ conn' = "cerrada"
    /\ cerradas' = cerradas + 1
    /\ vista' = tabla
    /\ op' = SinOp
    /\ ret' = "nada"
    /\ antes' = SinAntes
    /\ resultado' = <<>>
    /\ pc' = "terminado"
    /\ UNCHANGED <<tabla, productos, semilla, exc, excEn>>

----------------------------------------------------------------------------

Next ==
    \/ Inventario_init
    \/ cargar_ejemplo_neos
    \/ cargar_ejemplo_bucle
    \/ cargar_ejemplo_sigue
    \/ Opcion1
    \/ Opcion2
    \/ Opcion3
    \/ Opcion4
    \/ Opcion5
    \/ Opcion6
    \/ Opcion0
    \/ OpcionInvalida
    \/ main_imprime
    \/ agregar_producto_existe
    \/ agregar_producto_insert
    \/ agregar_producto_commit
    \/ agregar_producto_asignar
    \/ eliminar_producto_existe
    \/ eliminar_producto_delete
    \/ eliminar_producto_commit
    \/ eliminar_producto_pop
    \/ actualizar_cantidad_existe
    \/ actualizar_cantidad_update
    \/ actualizar_cantidad_commit
    \/ actualizar_cantidad_set
    \/ actualizar_precio_existe
    \/ actualizar_precio_update
    \/ actualizar_precio_commit
    \/ actualizar_precio_set
    \/ KeyboardInterrupt
    \/ cerrar

Spec == Init /\ [][Next]_vars


----------------------------------------------------------------------------
(* Vocabulary of the properties *)

IdsTodos == Ids \cup {ejemplos[i].id : i \in 1..NumEjemplos}

IdsDe(t) == {f.id : f \in t}
FilasDe(d) == {d[i].v : i \in 1..Len(d)}

\* the dict and a table hold the same identifiers with the same fields
Coinciden(d, t) ==
    /\ Claves(d) = IdsDe(t)
    /\ \A k \in Claves(d) : \A f \in t :
          f.id = k =>
             /\ Obtener(d, k).nombre = f.nombre
             /\ Obtener(d, k).cantidad = f.cantidad
             /\ Obtener(d, k).precio = f.precio

\* main() is not inside a repository method
EntreLlamadas ==
    \/ pc \in {"sembrar", "sembrar_bucle", "menu", "fin"}
    \/ pc = "finally" /\ exc # "KeyboardInterrupt"

Termino(nombre) == pc = "fin" /\ op.nombre = nombre

EstabaAntes(id) == id \in Claves(antes.productos)

NadaCambio ==
    /\ productos = antes.productos
    /\ tabla = antes.tabla
    /\ vista = antes.tabla

ExactamenteUno(lista, p) ==
    /\ Cardinality({i \in 1..Len(lista) : lista[i].id = p.id}) = 1
    /\ \A i \in 1..Len(lista) :
          lista[i].id = p.id =>
             /\ lista[i].nombre = p.nombre
             /\ lista[i].cantidad = p.cantidad
             /\ lista[i].precio = p.precio

----------------------------------------------------------------------------
\* C1: between two calls of the repository, the dict `productos` and the
\* table hold the same identifiers and, for each, the same nombre, cantidad
\* and precio (for the committed table and for the connection's view).
C1_CacheStore ==
    EntreLlamadas => Coinciden(productos, tabla) /\ Coinciden(productos, vista)

C1_Witness ==
    /\ Termino("actualizar_cantidad")
    /\ ret = "True"
    /\ 100 \in Claves(productos)
    /\ productos # antes.productos

\* C2 as stated: add(p) with an identifier that is not present returns True
\* and list_all() then has exactly one product with that identifier and p's
\* fields.
C2_Original ==
    (Termino("agregar_producto") /\ ~ EstabaAntes(op.producto.id)) =>
        /\ ret = "True"
        /\ ExactamenteUno(listar_todos(productos), op.producto)

\* C2 amended: add(p) with an identifier that is not present and with
\* cantidad >= 0 and precio >= 0 returns True, and list_all() then has
\* exactly one product with that identifier and p's fields.
C2_AddFresh ==
    (/\ Termino("agregar_producto")
     /\ ~ EstabaAntes(op.producto.id)
     /\ op.producto.cantidad >= 0
     /\ op.producto.precio >= 0) =>
        /\ ret = "True"
        /\ ExactamenteUno(listar_todos(productos), op.producto)

C2_Witness ==
    /\ Termino("agregar_producto")
    /\ semilla = 0
    /\ ~ EstabaAntes(op.producto.id)
    /\ op.producto.cantidad >= 0
    /\ op.producto.precio >= 0
    /\ ret = "True"

\* C3: a constraint violation of the store is reported as the result False,
\* never as an exception: add of a new identifier with a negative value
\* returns False, and no IntegrityError leaves a repository method.
C3_ViolacionesAtrapadas ==
    /\ (Termino("agregar_producto") /\ ~ EstabaAntes(op.producto.id)
          /\ ~ CheckOk(op.producto)) => ret = "False"
    /\ exc # "IntegrityError"

\* C4: when the store rejects a write (add of a new identifier answered
\* False, or an UPDATE that raised), table, connection view and dict are
\* what they were before the call.
Rechazada ==
    \/ Termino("agregar_producto") /\ ~ EstabaAntes(op.producto.id) /\ ret = "False"
    \/ pc = "finally" /\ exc = "IntegrityError"

C4_RechazoSinCambio == Rechazada => NadaCambio

C4_Witness ==
    /\ pc = "finally"
    /\ exc = "IntegrityError"
    /\ op.nombre = "actualizar_precio"
    /\ Len(productos) > NumEjemplos

\* C5: in every state every row of the table (committed or not) and every
\* product of the dict has cantidad >= 0 and precio >= 0.
C5_NoNegativos ==
    \A f \in tabla \cup vista \cup FilasDe(productos) :
        f.cantidad >= 0 /\ f.precio >= 0

C5_Witness ==
    /\ Termino("agregar_producto")
    /\ op.producto.cantidad < 0
    /\ ret = "False"
    /\ productos # <<>>

\* C6: when the process has ended, cerrar() has been called exactly once.
C6_CerradaUnaVez == pc = "terminado" => cerradas = 1

\* C7: add(p) with an identifier already present returns False and leaves
\* dict and table as they were, every time it is tried.
C7_DuplicadoRechazado ==
    (Termino("agregar_producto") /\ EstabaAntes(op.producto.id)) =>
        ret = "False" /\ NadaCambio

C7_Witness ==
    /\ Termino("agregar_producto")
    /\ EstabaAntes(op.producto.id)
    /\ semilla = 0
    /\ Obtener(productos, op.producto.id) # op.producto
    /\ CheckOk(op.producto)


\* C8: set_quantity / set_price on a present identifier change that field
\* of that product and nothing else, in dict and table: the identifiers, the
\* other fields of the product and the other products stay; on an absent
\* identifier they return False and change nothing.
Campos == {"id", "nombre", "cantidad", "precio"}

SoloCambia(campo) ==
    /\ ret = "True"
    /\ Claves(productos) = Claves(antes.productos)
    /\ \A k \in Claves(productos) :
          LET a == Obtener(antes.productos, k)
              b == Obtener(productos, k)
          IN \A c \in Campos :
                b[c] = IF k = op.id_ /\ c = campo THEN op.valor ELSE a[c]
    /\ IdsDe(tabla) = IdsDe(antes.tabla)
    /\ Cardinality(tabla) = Cardinality(antes.tabla)
    /\ \A f \in tabla : \E g \in antes.tabla :
          /\ g.id = f.id
          /\ \A c \in Campos :
                f[c] = IF f.id = op.id_ /\ c = campo THEN op.valor ELSE g[c]
    /\ vista = tabla

C8_SoloElCampo ==
    /\ Termino("actualizar_cantidad") =>
          IF EstabaAntes(op.id_) THEN SoloCambia("cantidad")
          ELSE ret = "False" /\ NadaCambio
    /\ Termino("actualizar_precio") =>
          IF EstabaAntes(op.id_) THEN SoloCambia("precio")
          ELSE ret = "False" /\ NadaCambio

C8_Witness ==
    /\ Termino("actualizar_precio")
    /\ ret = "True"
    /\ Len(productos) > NumEjemplos
    /\ op.id_ = 100
    /\ Obtener(antes.productos, 100).precio # op.valor
    /\ Obtener(antes.productos, 100).cantidad # op.valor

\* C9: remove(i) on a present identifier returns True, takes i out of dict
\* and table and leaves the other products as they were; on an absent
\* identifier it returns False and changes nothing; a result of list_all()
\* or find_by_name() holds only products of the dict, and while the
\* repository lives an identifier enters the dict only where add(i) returns
\* True.
C9_Estado ==
    /\ Termino("eliminar_producto") =>
          IF EstabaAntes(op.id_)
          THEN /\ ret = "True"
               /\ Claves(productos) = Claves(antes.productos) \ {op.id_}
               /\ \A k \in Claves(productos) :
                     Obtener(productos, k) = Obtener(antes.productos, k)
               /\ tabla = {f \in antes.tabla : f.id # op.id_}
               /\ vista = tabla
          ELSE ret = "False" /\ NadaCambio
    /\ (pc = "fin" /\ op.nombre \in {"buscar_por_nombre", "listar_todos"}) =>
          \A j \in 1..Len(resultado) : resultado[j].id \in Claves(productos)

C9_Paso ==
    pc \notin {"inicio", "terminado"} =>
        \A i \in IdsTodos :
            (i \notin Claves(productos) /\ i \in Claves(productos')) =>
                /\ pc = "agregar_asignar"
                /\ op.producto.id = i
                /\ ret' = "True"

C9_Eliminar == [] C9_Estado /\ [][C9_Paso]_vars

C9_Witness ==
    /\ Termino("listar_todos")
    /\ 101 \notin Claves(productos)
    /\ 100 \in Claves(productos)
    /\ Len(resultado) = NumEjemplos

\* C10 as stated: a new Inventario on the same file holds the identifiers
\* and field values the dict held when the process ended, however it ended.
MismoMapa(d, e) ==
    {<<d[i].k, d[i].v>> : i \in 1..Len(d)} = {<<e[i].k, e[i].v>> : i \in 1..Len(e)}

Reinicio == pc = "terminado" /\ pc' = "sembrar"

C10_Original == [][Reinicio => MismoMapa(productos', productos)]_vars

\* C10 amended: the same, unless the process was interrupted between the
\* commit of a statement and the update of the dict that follows it.
TrasCommit == {"agregar_asignar", "eliminar_pop", "cantidad_set", "precio_set"}

C10_Reinicio ==
    [][(Reinicio /\ excEn \notin TrasCommit) => MismoMapa(productos', productos)]_vars

C10_Witness ==
    /\ pc = "sembrar"
    /\ 100 \in Claves(productos)
    /\ 101 \in Claves(productos)
    /\ Obtener(productos, 101).cantidad = 0
    /\ productos[1].k = 100


\* C11 as stated: every listing of list_all() is in ascending order of
\* identifier.
Ordenada(lista) ==
    \A i, j \in 1..Len(lista) : i < j => lista[i].id < lista[j].id

C11_Original == Termino("listar_todos") => Ordenada(resultado)

\* C11 amended: the listing is in ascending order of identifier when the
\* dict has just been loaded from the table; during the session it follows
\* the order of insertion: a product added is listed last.
C11_OrdenDeCarga ==
    /\ pc = "sembrar" => Ordenada(listar_todos(productos))
    /\ (Termino("agregar_producto") /\ ret = "True") =>
          LET lista == listar_todos(productos)
          IN lista # <<>> /\ lista[Len(lista)] = op.producto

C11_Witness ==
    /\ pc = "sembrar"
    /\ Len(productos) > NumEjemplos
    /\ productos[1].k = 100
    /\ productos[2].k = 101

\* C12: cargar_ejemplo_neos changes neither table nor dict when the dict
\* holds a product; started on an empty repository, its loop ends with table
\* and dict holding exactly the eight examples, identifiers 101..108.
ConjuntoEjemplos == {ejemplos[i] : i \in 1..NumEjemplos}

C12_Estado ==
    (pc = "sembrar_bucle" /\ semilla > NumEjemplos) =>
        /\ Valores(productos) = ejemplos
        /\ tabla = ConjuntoEjemplos
        /\ vista = ConjuntoEjemplos
        /\ IdsDe(tabla) = 101..108

C12_Paso ==
    (pc = "sembrar" /\ listar_todos(productos) # <<>>) =>
        /\ productos' = productos
        /\ tabla' = tabla
        /\ vista' = vista
        /\ pc' \in {"menu", "terminado"}

C12_Sembrar == [] C12_Estado /\ [][C12_Paso]_vars

C12_Witness ==
    /\ pc = "sembrar_bucle"
    /\ semilla = NumEjemplos + 1
    /\ Len(productos) = NumEjemplos


\* C13: find_by_name(s) and list_all() always return and leave table and
\* dict as they were; find_by_name(s) returns, in the dict's order and once
\* each, exactly the products whose name contains s without its surrounding
\* blanks, letters compared without regard to case; list_all() returns
\* every product of the dict once.
MismaLetra(a, b) ==
    \/ a = b
    \/ \E i \in 1..Len(Mayusculas) : {a, b} = {Mayusculas[i], Minusculas[i]}

\* s without its leading and trailing blanks
Recortada(s) ==
    LET cortes == {<<i, j>> \in (1..Len(s) + 1) \X (0..Len(s)) :
                      /\ i <= j + 1
                      /\ \A n \in 1..Len(s) : (n < i \/ n > j) => s[n] = " "
                      /\ i <= j => (s[i] # " " /\ s[j] # " ")}
        c == CHOOSE c \in cortes : TRUE
    IN SubSeq(s, c[1], c[2])

ApareceEn(sub, texto) ==
    \E d \in 0..(Len(texto) - Len(sub)) :
        \A n \in 1..Len(sub) : MismaLetra(sub[n], texto[d + n])

\* the positions of the dict whose product matches, in ascending order
RECURSIVE EnOrden(_)
EnOrden(S) ==
    IF S = {} THEN <<>>
    ELSE LET m == CHOOSE x \in S : \A y \in S : x <= y
         IN <<m>> \o EnOrden(S \ {m})

C13_Consultas ==
    /\ Termino("buscar_por_nombre") =>
          LET sub == Recortada(op.entrada)
              pos == EnOrden({i \in 1..Len(productos) :
                                 ApareceEn(sub, productos[i].v.nombre)})
          IN /\ NadaCambio
             /\ resultado = [n \in 1..Len(pos) |-> productos[pos[n]].v]
    /\ Termino("listar_todos") =>
          /\ NadaCambio
          /\ Len(resultado) = Cardinality(Claves(productos))
          /\ \A k \in Claves(productos) :
                Cardinality({n \in 1..Len(resultado) :
                                resultado[n] = Obtener(productos, k)}) = 1
    /\ (pc = "menu" /\ conn = "abierta") => (ENABLED Opcion5 /\ ENABLED Opcion6)

C13_Witness ==
    /\ Termino("buscar_por_nombre")
    /\ op.entrada = <<" ", "q", "U", " ">>
    /\ Len(resultado) = 2
    /\ resultado[1].id = 102
    /\ resultado[2].id = 100

\* C18: buscar_por_nombre with an empty string or with blanks only returns
\* the products listar_todos() returns.
SoloBlancos(s) == \A n \in 1..Len(s) : s[n] = " "

C18_BusquedaVacia ==
    (Termino("buscar_por_nombre") /\ SoloBlancos(op.entrada)) =>
        resultado = listar_todos(productos)

C18_Witness ==
    /\ Termino("buscar_por_nombre")
    /\ op.entrada = <<" ">>
    /\ Len(resultado) > NumEjemplos


\* C14: in add, remove, set_quantity and set_price the check of the dict
\* comes first, then one statement is executed on the table, then it is
\* committed, and only then is the dict modified; a call that returns False
\* has not modified the dict, and no step modifies the dict while the
\* statement of its call is not committed.
PasoExiste == {"agregar_existe", "eliminar_existe", "cantidad_existe", "precio_existe"}
PasoSentencia == {"agregar_insert", "eliminar_delete", "cantidad_update", "precio_update"}
PasoCommit == {"agregar_commit", "eliminar_commit", "cantidad_commit", "precio_commit"}

LlamadaDe(p) ==
    CASE p \in {"agregar_existe", "agregar_insert", "agregar_commit", "agregar_asignar"}
             -> "agregar_producto"
      [] p \in {"eliminar_existe", "eliminar_delete", "eliminar_commit", "eliminar_pop"}
             -> "eliminar_producto"
      [] p \in {"cantidad_existe", "cantidad_update", "cantidad_commit", "cantidad_set"}
             -> "actualizar_cantidad"
      [] p \in {"precio_existe", "precio_update", "precio_commit", "precio_set"}
             -> "actualizar_precio"
      [] OTHER -> "ninguna"

MismaLlamada == LlamadaDe(pc') = LlamadaDe(pc) /\ op' = op

C14_Paso ==
    \* the order of the steps of one call
    /\ pc' \in PasoSentencia => (pc \in PasoExiste /\ MismaLlamada)
    /\ pc' \in PasoCommit => (pc \in PasoSentencia /\ MismaLlamada)
    /\ pc' \in TrasCommit => (pc \in PasoCommit /\ MismaLlamada /\ tabla' = vista)
    \* the table is written by the statement step only, once per call
    /\ (pc \notin {"inicio", "terminado", "finally"} /\ pc' # "terminado"
          /\ vista' # vista) =>
          (pc \in PasoSentencia /\ vista = antes.tabla /\ productos = antes.productos)
    /\ tabla' # tabla => (pc \in PasoCommit /\ tabla' = vista)
    \* the dict is written after the commit only
    /\ (pc \notin {"inicio", "terminado"} /\ productos' # productos) =>
          /\ pc \in TrasCommit
          /\ tabla = vista
          /\ Coinciden(productos', tabla)
          /\ ret' = "True"

C14_Estado ==
    (pc = "fin" /\ ret = "False") => productos = antes.productos

C14_TablaAntesQueDict == [] C14_Estado /\ [][C14_Paso]_vars

C14_Witness ==
    /\ pc = "eliminar_pop"
    /\ tabla = vista
    /\ op.id_ \notin IdsDe(tabla)
    /\ op.id_ \in Claves(productos)
    /\ Len(productos) > NumEjemplos

\* C15: no two rows of the table have the same identifier, and every entry
\* of the dict under key k holds a product whose id is k.
C15_ClaveUnica ==
    /\ \A t \in {tabla, vista} : \A f, g \in t : f.id = g.id => f = g
    /\ \A i \in 1..Len(productos) : productos[i].v.id = productos[i].k
    /\ \A i, j \in 1..Len(productos) : productos[i].k = productos[j].k => i = j

C15_Witness ==
    /\ Termino("agregar_producto")
    /\ semilla = 0
    /\ ret = "True"
    /\ op.producto.id = 101
    /\ Len(productos) > NumEjemplos
    /\ Cardinality(antes.tabla) = NumEjemplos

\* C16: once cerrar() has been called no repository method runs: the
\* process is at its end, and the only step left is the start of a new
\* process with a new Inventario.
C16_Estado == (cerradas > 0 \/ conn = "cerrada") => pc = "terminado"

C16_Paso == conn = "cerrada" => (pc' = "sembrar" /\ conn' = "abierta" /\ cerradas' = 0)

C16_CerrarEsLoUltimo == [] C16_Estado /\ [][C16_Paso]_vars

C16_Witness ==
    /\ pc = "terminado"
    /\ conn = "cerrada"
    /\ cerradas = 1
    /\ exc = "IntegrityError"

\* C17: in the menu loop, after a call that returned False or an invalid
\* option the loop is back at the menu with the connection open and table
\* and dict as before the option; the loop is left only by option 0, by an
\* interruption or by an exception that leaves a repository method.
Fallo == pc = "fin" /\ semilla = 0 /\ (ret = "False" \/ op.nombre = "invalida")

C17_Paso ==
    /\ Fallo =>
          /\ conn' = "abierta"
          /\ productos' = productos /\ tabla' = tabla /\ vista' = vista
          /\ (pc' = "menu" \/ exc' = "KeyboardInterrupt")
    /\ (pc \notin {"finally", "terminado", "inicio"} /\ semilla = 0
          /\ pc' \in {"finally", "terminado"}) =>
          \/ pc = "menu" /\ exc' = "ninguna"
          \/ exc' = "KeyboardInterrupt"
          \/ exc' = "IntegrityError" /\ pc \in PasoSentencia

C17_Estado ==
    Fallo => (conn = "abierta" /\ (op.nombre # "invalida" => NadaCambio))

C17_ElMenuSigue == [] C17_Estado /\ [][C17_Paso]_vars

C17_Witness ==
    /\ Termino("actualizar_precio")
    /\ ret = "False"
    /\ semilla = 0
    /\ conn = "abierta"
    /\ Len(productos) = NumEjemplos

====
